---- MODULE Spec2Model ----
(***************************************************************************)
(* Model of bit::count and bit::reverse (bit_algorithm.hpp): the two       *)
(* word-packed bit-range algorithms, applied to a caller-owned storage of  *)
(* NumWords words of Digits bits each.                                     *)
(*                                                                         *)
(* The word type is an unsigned integer type that is not subject to        *)
(* integral promotion, so every word expression is computed modulo         *)
(* 2^Digits.  Bit 0 is the least significant bit of a word.                *)
(*                                                                         *)
(* A bit address (bit_iterator) is a record [base, position]: base is an   *)
(* index into the word storage (NumWords is the one-past-the-end           *)
(* position), position the offset inside the word.                         *)
(***************************************************************************)
EXTENDS Integers, FiniteSets, Sequences, TLC

\* Width of one word: binary_digits<underlying_type>::value.  count and
\* reverse are templates over the word type; they are instantiated here at
\* a word of three bits, the narrowest one in which first.position() can be
\* below, equal to and above gap with both ends unaligned.  The properties
\* below were also checked with Digits == 4, for three and for four words.
Digits == 3

\* Number of words of the caller-owned storage.
NumWords == 3

(***************************************************************************)
(* Word arithmetic                                                         *)
(***************************************************************************)
RECURSIVE Pow2(_)
Pow2(n) == IF n <= 0 THEN 1 ELSE 2 * Pow2(n - 1)

WordMod == Pow2(Digits)

Word == 0 .. (WordMod - 1)

BitIdx == 0 .. (Digits - 1)

\* Bit i of word w.
Bit(w, i) == (w \div Pow2(i)) % 2

\* The bits [start, start + len) of w, in place (w & mask).
Field(w, start, len) ==
    IF len <= 0 THEN 0 ELSE ((w \div Pow2(start)) % Pow2(len)) * Pow2(start)

RECURSIVE Compose(_, _)
\* The word whose bit i is f[i], for the bits i .. Digits-1.
Compose(f, i) == IF i >= Digits THEN 0 ELSE f[i] * Pow2(i) + Compose(f, i + 1)

\* w << k and w >> k on the unsigned word type.
shl(w, k) == (w * Pow2(k)) % WordMod
shr(w, k) == w \div Pow2(k)

(***************************************************************************)
(* Word primitives (bit_details.hpp), from their contract                  *)
(***************************************************************************)
\* Population count.
PopcntOf == [w \in Word |-> Cardinality({i \in BitIdx : Bit(w, i) = 1})]
popcnt(src) == PopcntOf[src]

\* The len bits of src starting at start, right-justified.
bextr(src, start, len) == shr(src, start) % Pow2(len)

\* Bit i and bit Digits-1-i exchanged.
BitswapOf ==
    [w \in Word |-> Compose([i \in BitIdx |-> Bit(w, Digits - 1 - i)], 0)]
bitswap(src) == BitswapOf[src]

\* Funnel shift left: dst shifted left by cnt, its low bits filled with the
\* high bits of src.
shld(dst, src, cnt) == (shl(dst, cnt) + shr(src, Digits - cnt)) % WordMod

\* Funnel shift right: dst shifted right by cnt, its high bits filled with
\* the low bits of src.
shrd(dst, src, cnt) == (shr(dst, cnt) + shl(src, Digits - cnt)) % WordMod

\* src0 with its bits [start, start + len) replaced by those of src1.
bitblend(src0, src1, start, len) ==
    (src0 - Field(src0, start, len)) + Field(src1, start, len)

(***************************************************************************)
(* Bit addresses                                                           *)
(***************************************************************************)
\* The addresses of the storage: every bit of every word, and the end.
Address ==
    {a \in [base : 0 .. NumWords, position : BitIdx] :
        a.base = NumWords => a.position = 0}

\* std::distance(first, last) of two bit iterators.
distance(first, last) ==
    (last.base - first.base) * Digits + last.position - first.position

\* _assert_range_viability: the range is viable when last is not before first.
assert_range_viability(first, last) == distance(first, last) >= 0

\* The storage as the algorithms see it: the words, and at the
\* one-past-the-end position whatever lies behind the storage (g).
View(w, g) == [i \in 0 .. NumWords |-> IF i < NumWords THEN w[i] ELSE g]

Storage(m) == [i \in 0 .. (NumWords - 1) |-> m[i]]

(***************************************************************************)
(* count                                                                   *)
(*                                                                         *)
(* Every operator below works on a view m of the storage and returns the   *)
(* value the code computes together with what it did to compute it: the    *)
(* word positions it dereferenced (reads), the iterations of its loops     *)
(* (steps), the amounts of its shifts (shifts) and whether an iterator     *)
(* left the storage before reaching its end position (overrun).            *)
(***************************************************************************)
\* The partial first word: _popcnt(*first.base() >> first.position()); ++it.
count_first_partial(m, first) ==
    IF first.position # 0
    THEN [result |-> popcnt(shr(m[first.base], first.position)),
          it     |-> first.base + 1,
          reads  |-> {first.base},
          shifts |-> {first.position}]
    ELSE [result |-> 0, it |-> first.base, reads |-> {}, shifts |-> {}]

RECURSIVE count_loop(_, _, _, _)
\* for (; it != last.base(); ++it) result += _popcnt(*it);
count_loop(m, it, lastbase, acc) ==
    IF it = lastbase THEN acc
    ELSE IF it >= NumWords THEN [acc EXCEPT !.overrun = TRUE]
    ELSE count_loop(m, it + 1, lastbase,
                    [result  |-> acc.result + popcnt(m[it]),
                     reads   |-> acc.reads \cup {it},
                     steps   |-> acc.steps + 1,
                     overrun |-> FALSE])

\* count_last_partial shifting by last.position() instead of
\* digits - last.position().
count_last_partial_wrong_shift(m, last) ==
    IF last.position # 0
    THEN [result |-> popcnt(shl(m[last.base], last.position)),
          reads  |-> {last.base},
          shifts |-> {last.position}]
    ELSE [result |-> 0, reads |-> {}, shifts |-> {}]

\* The partial last word:
\* _popcnt(*last.base() << (digits - last.position())).
count_last_partial(m, last) ==
    IF last.position # 0
    THEN [result |-> popcnt(shl(m[last.base], Digits - last.position)),
          reads  |-> {last.base},
          shifts |-> {Digits - last.position}]
    ELSE [result |-> 0, reads |-> {}, shifts |-> {}]

\* The bits belong to several underlying values.
count_several(m, first, last) ==
    LET head == count_first_partial(m, first)
        mid  == count_loop(m, head.it, last.base,
                           [result |-> head.result, reads |-> head.reads,
                            steps |-> 0, overrun |-> FALSE])
        tail == count_last_partial(m, last)
    IN  IF mid.overrun
        THEN [result |-> mid.result, reads |-> mid.reads, steps |-> mid.steps,
              shifts |-> head.shifts, overrun |-> TRUE]
        ELSE [result  |-> mid.result + tail.result,
              reads   |-> mid.reads \cup tail.reads,
              steps   |-> mid.steps,
              shifts  |-> head.shifts \cup tail.shifts,
              overrun |-> FALSE]

\* The bits belong to the same underlying value.
count_same(m, first, last) ==
    [result  |-> popcnt(bextr(m[first.base], first.position,
                              last.position - first.position)),
     reads   |-> {first.base},
     steps   |-> 0,
     shifts  |-> {first.position},
     overrun |-> FALSE]

\* The branch on the underlying positions of first and last.
count_set(m, first, last) ==
    IF first.base # last.base THEN count_several(m, first, last)
                              ELSE count_same(m, first, last)

\* count_negate complementing against the word width instead of the span.
count_negate_word_width(first, last, value, result) ==
    IF value = 0 THEN Digits - result ELSE result

\* Negates when the number of zero bits is requested.
count_negate(first, last, value, result) ==
    IF value = 0 THEN distance(first, last) - result ELSE result

\* count(first, last, value) on the view m.
count(m, first, last, value) ==
    IF ~assert_range_viability(first, last)
    THEN [status |-> "violation", result |-> 0, reads |-> {}, steps |-> 0,
          shifts |-> {}]
    ELSE LET c == count_set(m, first, last)
         IN  [status |-> IF c.overrun THEN "overrun" ELSE "ok",
              result |-> count_negate(first, last, value, c.result),
              reads  |-> c.reads,
              steps  |-> c.steps,
              shifts |-> c.shifts]

(***************************************************************************)
(* reverse                                                                 *)
(***************************************************************************)
is_aligned(a) == a.position = 0

\* reverse_gap without the factor !is_last_aligned.
reverse_gap_unmasked(last) == Digits - last.position

\* size_type gap = (digits - last.position()) * !is_last_aligned;
reverse_gap(last) ==
    (Digits - last.position) * (IF is_aligned(last) THEN 0 ELSE 1)

\* std::prev(last.base(), is_last_aligned): the last word holding range bits.
last_word(last) == last.base - (IF is_aligned(last) THEN 1 ELSE 0)

\* end_word stepping past last.base() whatever the alignment of last.
end_word_always_next(last) == last.base + 1

\* std::next(last.base(), !is_last_aligned): the end of the touched words.
end_word(last) == last.base + (IF is_aligned(last) THEN 0 ELSE 1)

\* std::reverse on the words [a, b).
std_reverse(m, a, b) ==
    [i \in DOMAIN m |-> IF a <= i /\ i < b THEN m[a + b - 1 - i] ELSE m[i]]

RECURSIVE bitswap_loop(_, _, _, _)
\* for (; it != end; ++it) *it = _bitswap(*it);
bitswap_loop(m, it, end, n) ==
    IF it = end THEN [mem |-> m, steps |-> n, overrun |-> FALSE]
    ELSE IF it >= NumWords THEN [mem |-> m, steps |-> n, overrun |-> TRUE]
    ELSE bitswap_loop([m EXCEPT ![it] = bitswap(m[it])], it + 1, end, n + 1)

RECURSIVE shift_left_loop(_, _, _, _, _)
\* for (; it != last.base(); ++it) *it = _shld(*it, *std::next(it), gap);
\* *it <<= gap;
shift_left_loop(m, it, lastbase, gap, n) ==
    IF it = lastbase
    THEN [mem |-> [m EXCEPT ![it] = shl(m[it], gap)], steps |-> n,
          overrun |-> FALSE]
    ELSE IF it >= NumWords THEN [mem |-> m, steps |-> n, overrun |-> TRUE]
    ELSE shift_left_loop([m EXCEPT ![it] = shld(m[it], m[it + 1], gap)],
                         it + 1, lastbase, gap, n + 1)

RECURSIVE shift_right_loop_plain(_, _, _, _, _)
\* shift_right_loop with a plain shift in place of the funnel shift.
shift_right_loop_plain(m, it, firstbase, gap, n) ==
    IF it = firstbase
    THEN [mem |-> [m EXCEPT ![it] = shr(m[it], gap)], steps |-> n,
          overrun |-> FALSE]
    ELSE IF it <= 0 THEN [mem |-> m, steps |-> n, overrun |-> TRUE]
    ELSE shift_right_loop_plain([m EXCEPT ![it] = shr(m[it], gap)],
                                it - 1, firstbase, gap, n + 1)

RECURSIVE shift_right_loop(_, _, _, _, _)
\* for (; it != first.base(); --it) *it = _shrd(*it, *std::prev(it), gap);
\* *it >>= gap;
shift_right_loop(m, it, firstbase, gap, n) ==
    IF it = firstbase
    THEN [mem |-> [m EXCEPT ![it] = shr(m[it], gap)], steps |-> n,
          overrun |-> FALSE]
    ELSE IF it <= 0 THEN [mem |-> m, steps |-> n, overrun |-> TRUE]
    ELSE shift_right_loop([m EXCEPT ![it] = shrd(m[it], m[it - 1], gap)],
                          it - 1, firstbase, gap, n + 1)

NoSteps == [left |-> 0, right |-> 0, swap |-> 0]

\* Reverse when bit iterators are aligned.
reverse_aligned(m, first, last) ==
    LET sw == bitswap_loop(std_reverse(m, first.base, last.base),
                           first.base, last.base, 0)
    IN  [mem     |-> sw.mem,
         reads   |-> first.base .. (last.base - 1),
         writes  |-> first.base .. (last.base - 1),
         steps   |-> [NoSteps EXCEPT !.swap = sw.steps],
         shifts  |-> {},
         funnels |-> {},
         overrun |-> sw.overrun \/ first.base > last.base]

\* Shift the underlying sequence to the left or to the right.
reverse_shift(m, first, last, gap) ==
    IF first.position < gap
    THEN LET l == shift_left_loop(m, first.base, last.base,
                                  gap - first.position, 0)
         IN  [mem |-> l.mem, left |-> l.steps, right |-> 0,
              funnels |-> IF l.steps > 0 THEN {gap - first.position} ELSE {},
              shifts |-> {gap - first.position},
              overrun |-> l.overrun]
    ELSE IF first.position > gap
    THEN LET r == shift_right_loop(m, last_word(last), first.base,
                                   first.position - gap, 0)
         IN  [mem |-> r.mem, left |-> 0, right |-> r.steps,
              funnels |-> IF r.steps > 0 THEN {first.position - gap} ELSE {},
              shifts |-> {first.position - gap},
              overrun |-> r.overrun]
    ELSE [mem |-> m, left |-> 0, right |-> 0, funnels |-> {}, shifts |-> {},
          overrun |-> FALSE]

\* blend_first keeping the whole new first word.
blend_first_skipped(first_value, new_value, first) == new_value

\* Blend bits of the first element.
blend_first(first_value, new_value, first) ==
    IF ~is_aligned(first)
    THEN bitblend(first_value, new_value, first.position,
                  Digits - first.position)
    ELSE new_value

\* blend_last keeping the whole new last word.
blend_last_skipped(new_value, last_value, last) == new_value

\* Blend bits of the last element.
blend_last(new_value, last_value, last) ==
    bitblend(new_value, last_value, last.position, Digits - last.position)

\* Reverse when bit iterators do not belong to the same underlying value.
reverse_several(m, first, last) ==
    LET gap         == reverse_gap(last)
        first_value == m[first.base]
        last_value  == m[last_word(last)]
        rv == std_reverse(m, first.base, end_word(last))
        sh == reverse_shift(rv, first, last, gap)
        sw == bitswap_loop(sh.mem, first.base, end_word(last), 0)
        bf == [sw.mem EXCEPT ![first.base] =
                  blend_first(first_value, sw.mem[first.base], first)]
        bl == IF ~is_aligned(last)
              THEN [bf EXCEPT ![last.base] =
                       blend_last(bf[last.base], last_value, last)]
              ELSE bf
    IN  [mem     |-> IF sh.overrun \/ sw.overrun THEN sw.mem ELSE bl,
         reads   |-> first.base .. (end_word(last) - 1),
         writes  |-> first.base .. (end_word(last) - 1),
         steps   |-> [left |-> sh.left, right |-> sh.right, swap |-> sw.steps],
         shifts  |-> sh.shifts,
         funnels |-> sh.funnels,
         overrun |-> sh.overrun \/ sw.overrun]

\* reverse_same blending up to the end of the word instead of up to
\* last.position().
reverse_same_to_word_end(m, first, last) ==
    LET gap == reverse_gap(last)
        it  == first.base
    IN  [mem     |-> [m EXCEPT ![it] =
                         bitblend(m[it],
                                  shr(bitswap(shr(m[it], first.position)), gap),
                                  first.position,
                                  Digits - first.position)],
         reads   |-> {it},
         writes  |-> {it},
         steps   |-> NoSteps,
         shifts  |-> {first.position, gap},
         funnels |-> {},
         overrun |-> FALSE]

\* Reverse when bit iterators belong to the same underlying value.
reverse_same(m, first, last) ==
    LET gap == reverse_gap(last)
        it  == first.base
    IN  [mem     |-> [m EXCEPT ![it] =
                         bitblend(m[it],
                                  shr(bitswap(shr(m[it], first.position)), gap),
                                  first.position,
                                  last.position - first.position)],
         reads   |-> {it},
         writes  |-> {it},
         steps   |-> NoSteps,
         shifts  |-> {first.position, gap},
         funnels |-> {},
         overrun |-> FALSE]

\* The branch on the alignment and the underlying positions.
reverse_body(m, first, last) ==
    IF is_aligned(first) /\ is_aligned(last)
    THEN reverse_aligned(m, first, last)
    ELSE IF first.base # last.base
    THEN reverse_several(m, first, last)
    ELSE reverse_same(m, first, last)

\* reverse checking the range only after it has bit-swapped the first word.
reverse_late_assert(m, first, last) ==
    IF ~assert_range_viability(first, last)
    THEN [status |-> "violation",
          mem |-> [m EXCEPT ![first.base] = bitswap(m[first.base])],
          reads |-> {first.base}, writes |-> {first.base},
          steps |-> NoSteps, shifts |-> {}, funnels |-> {}]
    ELSE LET r == reverse_body(m, first, last)
         IN  [status  |-> IF r.overrun THEN "overrun" ELSE "ok",
              mem     |-> r.mem,
              reads   |-> r.reads,
              writes  |-> r.writes,
              steps   |-> r.steps,
              shifts  |-> r.shifts,
              funnels |-> r.funnels]

\* reverse(first, last) on the view m.
reverse(m, first, last) ==
    IF ~assert_range_viability(first, last)
    THEN [status |-> "violation", mem |-> m, reads |-> {}, writes |-> {},
          steps |-> NoSteps, shifts |-> {}, funnels |-> {}]
    ELSE LET r == reverse_body(m, first, last)
         IN  [status  |-> IF r.overrun THEN "overrun" ELSE "ok",
              mem     |-> r.mem,
              reads   |-> r.reads,
              writes  |-> r.writes,
              steps   |-> r.steps,
              shifts  |-> r.shifts,
              funnels |-> r.funnels]

(***************************************************************************)
(* The calls                                                               *)
(*                                                                         *)
(* words is the caller's storage.  A call records its arguments, its       *)
(* outcome and what it did; pre is the storage at the entry of the last    *)
(* call.  After a reverse that returned, the caller may reverse the same   *)
(* range once more (pair); before is then the storage at the entry of the  *)
(* first of the two calls.                                                 *)
(***************************************************************************)
VARIABLES words, pre, before, op, first, last, value, status, result,
          reads, writes, steps, shifts, funnels, gap, pair

vars == <<words, pre, before, op, first, last, value, status, result,
          reads, writes, steps, shifts, funnels, gap, pair>>

Origin == [base |-> 0, position |-> 0]

Init ==
    /\ words \in [0 .. (NumWords - 1) -> Word]
    /\ pre = words
    /\ before = words
    /\ op = "none"
    /\ first = Origin
    /\ last = Origin
    /\ value = 0
    /\ status = "none"
    /\ result = 0
    /\ reads = {}
    /\ writes = {}
    /\ steps = [count |-> 0, left |-> 0, right |-> 0, swap |-> 0]
    /\ shifts = {}
    /\ funnels = {}
    /\ gap = 0
    /\ pair = FALSE

\* The ranges the caller may pass next: any pair of addresses for a first
\* call, the range just reversed for the second reverse of a pair.
CountRanges == IF op = "none" THEN Address \X Address ELSE {}

ReverseRanges ==
    IF op = "none" THEN Address \X Address
    ELSE IF op = "reverse" /\ status = "ok" /\ ~pair THEN {<<first, last>>}
    ELSE {}

\* Dereferencing the one-past-the-end position is undefined: the call then
\* computes with whatever word lies behind the storage, any value of Word.
Behind(rd) == IF NumWords \in rd THEN Word ELSE {0}

\* count(f, l, v) on the storage.
CallCount(f, l, v) ==
    /\ <<f, l>> \in CountRanges
    /\ \E c0 \in {count(View(words, 0), f, l, v)} :
       \E g \in Behind(c0.reads) :
       \E c \in {IF g = 0 THEN c0 ELSE count(View(words, g), f, l, v)} :
         /\ status' = c.status
         /\ result' = c.result
         /\ reads' = c.reads
         /\ steps' = [count |-> c.steps, left |-> 0, right |-> 0, swap |-> 0]
         /\ shifts' = c.shifts
    /\ op' = "count"
    /\ first' = f
    /\ last' = l
    /\ value' = v
    /\ pre' = words
    /\ before' = words
    /\ writes' = {}
    /\ funnels' = {}
    /\ gap' = 0
    /\ pair' = FALSE
    /\ UNCHANGED words

\* reverse(f, l) on the storage: the first call, or the same call once more.
CallReverse(f, l) ==
    /\ <<f, l>> \in ReverseRanges
    /\ \E r0 \in {reverse(View(words, 0), f, l)} :
       \E g \in Behind(r0.reads) :
       \E r \in {IF g = 0 THEN r0 ELSE reverse(View(words, g), f, l)} :
         /\ status' = r.status
         /\ words' = Storage(r.mem)
         /\ reads' = r.reads
         /\ writes' = r.writes \cup
                          {i \in 0 .. NumWords : r.mem[i] # View(words, g)[i]}
         /\ steps' = [count |-> 0, left |-> r.steps.left,
                      right |-> r.steps.right, swap |-> r.steps.swap]
         /\ shifts' = r.shifts
         /\ funnels' = r.funnels
    /\ op' = "reverse"
    /\ first' = f
    /\ last' = l
    /\ value' = 0
    /\ result' = 0
    /\ gap' = reverse_gap(l)
    /\ pre' = words
    /\ before' = IF op = "reverse" THEN pre ELSE words
    /\ pair' = (op = "reverse")

Next ==
    \/ \E a \in CountRanges, v \in {0, 1} : CallCount(a[1], a[2], v)
    \/ \E a \in ReverseRanges : CallReverse(a[1], a[2])

Spec == Init /\ [][Next]_vars

(***************************************************************************)
(* Properties                                                              *)
(***************************************************************************)
\* The bit of storage w at absolute bit position p.
BitAt(w, p) == Bit(w[p \div Digits], p % Digits)

\* The absolute position of the first bit of the range of the last call,
\* its length, and the number of words it spans.
Start == first.base * Digits + first.position
Length == distance(first, last)
Span == end_word(last) - first.base

WellFormed == assert_range_viability(first, last)
CountReturned == op = "count" /\ status = "ok"
ReverseReturned == op = "reverse" /\ status = "ok"

\* C1: after reverse on a well-formed range, the bit at range offset k is
\* the pre-call bit at range offset n-1-k, for every k in [0, n).
C1_ReverseIsReversal ==
    (op = "reverse" /\ WellFormed) =>
        /\ status = "ok"
        /\ \A k \in 0 .. (Length - 1) :
              BitAt(words, Start + k) = BitAt(pre, Start + Length - 1 - k)

\* C1 witness: a reverse over three words, both ends unaligned, that took
\* the right funnel-shift path and changed the storage.
C1_Witness ==
    /\ ReverseReturned /\ ~pair
    /\ last.base - first.base = 2
    /\ gap > 0 /\ first.position > gap
    /\ steps.right = 2
    /\ words # pre

\* C2: after reverse on a well-formed range, every bit of the storage
\* outside the range has its pre-call value, and no word outside
\* [first.base(), last touched word] is written.
C2_ReversePreservesOutside ==
    (op = "reverse" /\ WellFormed) =>
        /\ status = "ok"
        /\ \A p \in 0 .. (NumWords * Digits - 1) :
              (p < Start \/ p >= Start + Length) =>
                  BitAt(words, p) = BitAt(pre, p)
        /\ writes \subseteq first.base .. (end_word(last) - 1)

\* C2 witness: a multi-word reverse with both ends unaligned that changed
\* the storage while set bits lie below first and at or above last.
C2_Witness ==
    /\ ReverseReturned /\ ~pair
    /\ first.base # last.base
    /\ first.position # 0 /\ last.position # 0
    /\ Field(pre[first.base], 0, first.position) # 0
    /\ Field(pre[last.base], last.position, Digits - last.position) # 0
    /\ words # pre

\* C3: count on a well-formed range returns the number of positions of
\* the range whose bit equals value, a number in [0, last - first], and
\* leaves the storage as it was.
C3_CountIsExact ==
    (op = "count" /\ WellFormed) =>
        /\ status = "ok"
        /\ result = Cardinality({k \in 0 .. (Length - 1) :
                                    BitAt(pre, Start + k) = value})
        /\ result \in 0 .. Length
        /\ words = pre

\* C3 witness: a count of set bits over a partial first word, a full
\* interior word and a partial last word, some set and some not.
C3_Witness ==
    /\ CountReturned /\ value = 1
    /\ last.base - first.base = 2
    /\ first.position # 0 /\ last.position # 0
    /\ steps.count = 1
    /\ result > 0 /\ result < Length

\* C4: two successive reverse calls on the same well-formed range leave
\* the whole storage as it was before the first call.
C4_DoubleReverseRestores ==
    (op = "reverse" /\ pair /\ WellFormed) =>
        /\ status = "ok"
        /\ words = before

\* C4 witness: the second reverse of a pair over several words with both
\* ends unaligned, where the first reverse had changed the storage.
C4_Witness ==
    /\ ReverseReturned /\ pair
    /\ first.base # last.base
    /\ first.position # 0 /\ last.position # 0
    /\ pre # before

\* C5: on a well-formed range, the count of set bits plus the count of
\* unset bits is the length of the range.
C5_CountsSumToLength ==
    CountReturned =>
        \A g \in Behind(reads) :
            result + count(View(words, g), first, last, 1 - value).result
                = Length

\* C5 witness: a count of unset bits over a range longer than one word
\* holding both set and unset bits.
C5_Witness ==
    /\ CountReturned /\ value = 0
    /\ Length > Digits
    /\ result > 0 /\ result < Length

\* C6: on an ill-formed range (first after last) count and reverse report a
\* precondition violation having read and written no word: the storage is
\* its pre-call content.
C6_ViolationBeforeAnyAccess ==
    (op # "none" /\ ~WellFormed) =>
        /\ status = "violation"
        /\ words = pre
        /\ reads = {}
        /\ writes = {}

\* C6 witness: reverse was called with first after last.
C6_Witness ==
    /\ op = "reverse" /\ status = "violation"
    /\ distance(first, last) < 0
    /\ first.base > last.base

\* C7: on a well-formed range count and reverse return without failure,
\* and each loop over the words runs at most as many steps as the range
\* spans words, never leaving the storage.
C7_LoopsReachTheirEnd ==
    (op # "none" /\ WellFormed) =>
        /\ status = "ok"
        /\ steps.count <= Span
        /\ steps.left <= Span
        /\ steps.right <= Span
        /\ steps.swap <= Span

\* C7 witness: a reverse whose right funnel-shift loop walked backwards
\* over two words and whose bit-swap loop visited three.
C7_Witness ==
    /\ ReverseReturned
    /\ steps.right = 2
    /\ steps.swap = 3

\* C8: on an empty range count returns 0 for either value and reverse
\* leaves the storage unchanged.
C8_EmptyRange ==
    (op # "none" /\ first = last) =>
        /\ status = "ok"
        /\ op = "count" => result = 0
        /\ op = "reverse" => words = pre

\* C8 witness: reverse on an empty range at a non-zero offset of a word
\* that holds set bits on both sides of it.
C8_Witness ==
    /\ ReverseReturned
    /\ first = last /\ first.position # 0
    /\ Field(pre[first.base], 0, first.position) # 0
    /\ Field(pre[first.base], first.position, Digits - first.position) # 0

\* C9: on a well-formed range whose last address is word-aligned, count
\* does not read the word at last.base().
C9_CountSkipsAlignedLast ==
    (CountReturned /\ last.position = 0) => last.base \notin reads

\* C10: every shift amount of count and reverse is below digits: plain
\* shifts in [0, digits-1], funnel shifts in [1, digits-1], gap in
\* [0, digits-1].
C10_ShiftAmountsInRange ==
    (op # "none" /\ WellFormed) =>
        /\ status = "ok"
        /\ shifts \subseteq 0 .. (Digits - 1)
        /\ funnels \subseteq 1 .. (Digits - 1)
        /\ gap \in 0 .. (Digits - 1)

\* C10 witness: a reverse that funnel-shifted by the largest amount.
C10_Witness ==
    /\ ReverseReturned
    /\ funnels = {Digits - 1}
    /\ steps.left > 0

====
